---- MODULE Spec2Model ----
(***************************************************************************)
(* A model of negotiate.py: the TTP negotiation between an OFCP controller *)
(* and a switch.  The program is Python 2 (xrange, set comprehensions):    *)
(* int / int truncates towards minus infinity, mixed int/str comparisons   *)
(* are defined (numbers sort before strings), and a list of (score, dict)  *)
(* tuples is sortable.                                                     *)
(*                                                                         *)
(* Text is modelled as a sequence of one-character strings, so that        *)
(* splitting, int() and str() are computed and not assumed.  Numbers are   *)
(* records [n, d, k]: the exact rational n/d and the Python type k         *)
(* ("int", "float" or "bool"); a float is idealised as an exact rational.  *)
(***************************************************************************)
EXTENDS Integers, Sequences, FiniteSets, TLC

VARIABLES sw, pc, req, resp, events, preferred_ttp, negotiation_msg, outcome, logged,
          queries

vars == <<sw, pc, req, resp, events, preferred_ttp, negotiation_msg, outcome, logged,
          queries>>

(***************************************************************************)
(* Bounds of the model.                                                    *)
(***************************************************************************)
\* Longest VERSIONS_SUPPORTED list, and longest offered "versions" list.
MaxVers == 2
\* Longest TTPS_SUPPORTED list drawn (the lists of the source are added).
MaxTtps == 2
\* Longest candidate list of a catalog drawn (PARAM_SETS of the source is added).
MaxCands == 2
\* Longest constraint list drawn for a query of the fixed-catalog switch and
\* of the budgeted-search switch (the lists of negotiate_ipv4 are added).
MaxCons == 2
MaxSearchCons == 2
\* Most negotiate_ipv4 calls of a run: negotiate_with is not called again
\* once that many ttp_query messages were sent.
MaxQueries == 2

(***************************************************************************)
(* Generic helpers.                                                        *)
(***************************************************************************)
Range(s) == {s[i] : i \in 1..Len(s)}

\* All sequences over S of length at most n.
SeqsUpTo(S, n) == UNION {[1..k -> S] : k \in 0..n}

\* Sequences over S without repetition, of length at most n.
InjSeqsUpTo(S, n) == {s \in SeqsUpTo(S, n) : \A i, j \in 1..Len(s) : s[i] = s[j] => i = j}

\* The Python value None, where a dict, a message or a number may stand, and
\* where a tuple may stand.
None == [none |-> TRUE]
NoneTuple == <<>>

(***************************************************************************)
(* Text: a str is a sequence of one-character strings.                     *)
(***************************************************************************)
Digits == {"0", "1", "2", "3", "4", "5", "6", "7", "8", "9"}

DigitVal == ("0" :> 0) @@ ("1" :> 1) @@ ("2" :> 2) @@ ("3" :> 3) @@ ("4" :> 4) @@
            ("5" :> 5) @@ ("6" :> 6) @@ ("7" :> 7) @@ ("8" :> 8) @@ ("9" :> 9)

DigitChar == <<"0", "1", "2", "3", "4", "5", "6", "7", "8", "9">>

\* Character codes of the characters the version strings use (ASCII).
Ord == ("0" :> 48) @@ ("1" :> 49) @@ ("2" :> 50) @@ ("3" :> 51) @@ ("4" :> 52) @@
       ("5" :> 53) @@ ("6" :> 54) @@ ("7" :> 55) @@ ("8" :> 56) @@ ("9" :> 57) @@
       ("." :> 46) @@ ("a" :> 97) @@ ("b" :> 98)

\* s < t for two str values: lexicographic by character code.
RECURSIVE StrLess(_, _)
StrLess(s, t) ==
    IF t = <<>> THEN FALSE
    ELSE IF s = <<>> THEN TRUE
    ELSE IF Ord[Head(s)] # Ord[Head(t)] THEN Ord[Head(s)] < Ord[Head(t)]
    ELSE StrLess(Tail(s), Tail(t))

\* needle in hay, for two str values.
Contains(needle, hay) ==
    \E i \in 1..(Len(hay) - Len(needle) + 1) :
        SubSeq(hay, i, i + Len(needle) - 1) = needle

\* s.split("."): the parts between the dots, empty parts kept.
RECURSIVE Split(_)
Split(s) ==
    IF \A i \in 1..Len(s) : s[i] # "." THEN <<s>>
    ELSE LET i == CHOOSE i \in 1..Len(s) : s[i] = "." /\ \A j \in 1..(i - 1) : s[j] # "."
         IN  <<SubSeq(s, 1, i - 1)>> \o Split(SubSeq(s, i + 1, Len(s)))

\* ".".join(parts)
RECURSIVE Join(_)
Join(parts) ==
    IF parts = <<>> THEN <<>>
    ELSE IF Len(parts) = 1 THEN parts[1]
    ELSE parts[1] \o <<".">> \o Join(Tail(parts))

\* int(s) succeeds on a non-empty run of decimal digits (the alphabet of the
\* model has no sign and no blank); anything else raises ValueError.
IsIntText(s) == s # <<>> /\ \A i \in 1..Len(s) : s[i] \in Digits

RECURSIVE IntOfText(_)
IntOfText(s) ==
    IF s = <<>> THEN 0 ELSE 10 * IntOfText(SubSeq(s, 1, Len(s) - 1)) + DigitVal[s[Len(s)]]

\* str(n) for an int n >= 0.
RECURSIVE TextOfInt(_)
TextOfInt(n) ==
    IF n < 10 THEN <<DigitChar[n + 1]>> ELSE TextOfInt(n \div 10) \o <<DigitChar[(n % 10) + 1]>>

(***************************************************************************)
(* parse_version, format_version and the order of version tuples.          *)
(* A component of a version tuple is an int or a str:                      *)
(* [int |-> TRUE, n |-> value, s |-> <<>>] or [int |-> FALSE, n |-> 0,     *)
(* s |-> text].                                                            *)
(***************************************************************************)
IntComp(n) == [int |-> TRUE, n |-> n, s |-> <<>>]
StrComp(s) == [int |-> FALSE, n |-> 0, s |-> s]

\* One pass of the loop of parse_version: int(part), or the part itself on
\* ValueError.
ParsePart(part) == IF IsIntText(part) THEN IntComp(IntOfText(part)) ELSE StrComp(part)

parse_version(ver) == LET parts == Split(ver) IN [i \in 1..Len(parts) |-> ParsePart(parts[i])]

\* str(x) of one component.
StrOfComp(x) == IF x.int THEN TextOfInt(x.n) ELSE x.s

format_version(ver_tuple) == Join([i \in 1..Len(ver_tuple) |-> StrOfComp(ver_tuple[i])])

\* x < y for two components, as Python 2 compares them: two ints by value,
\* two strs by character code, and an int before any str.
CompLess(x, y) ==
    IF x.int /\ y.int THEN x.n < y.n
    ELSE IF x.int THEN TRUE
    ELSE IF y.int THEN FALSE
    ELSE StrLess(x.s, y.s)

\* t < u for two tuples: the first differing component decides, and a proper
\* prefix is smaller.
RECURSIVE TupleLess(_, _)
TupleLess(t, u) ==
    IF u = <<>> THEN FALSE
    ELSE IF t = <<>> THEN TRUE
    ELSE IF Head(t) # Head(u) THEN CompLess(Head(t), Head(u))
    ELSE TupleLess(Tail(t), Tail(u))

\* list(S) followed by sort(), without reverse=True (a faulty
\* variant of SortedReverse).
RECURSIVE SortedAscending(_)
SortedAscending(S) ==
    IF S = {} THEN <<>>
    ELSE LET m == CHOOSE x \in S : \A y \in S : ~TupleLess(y, x)
         IN  <<m>> \o SortedAscending(S \ {m})

\* list(S) followed by sort(reverse=True), on a set of version tuples.
RECURSIVE SortedReverse(_)
SortedReverse(S) ==
    IF S = {} THEN <<>>
    ELSE LET m == CHOOSE x \in S : \A y \in S : ~TupleLess(x, y)
         IN  <<m>> \o SortedReverse(S \ {m})

(***************************************************************************)
(* What a call gives back: a value (a response message), or an exception.  *)
(***************************************************************************)
Returned(kind, payload) == [exc |-> "none", kind |-> kind, payload |-> payload]
Raised(exc) == [exc |-> exc, kind |-> "", payload |-> None]

(***************************************************************************)
(* class Switch.  A switch object s is the record of its class and of the  *)
(* class attributes its handlers read: s.cls, s.VERSIONS_SUPPORTED,        *)
(* s.TTPS_SUPPORTED, s.PARAM_SETS.                                         *)
(***************************************************************************)
\* on_ttp_begin with a fallback for an empty intersection: the highest of
\* the switch's own versions (a faulty variant of on_ttp_begin).
on_ttp_begin_fallback(self, msg) ==
    LET our_versions    == {parse_version(v) : v \in Range(self.VERSIONS_SUPPORTED)}
        their_versions  == {parse_version(v) : v \in Range(msg.versions)}
        shared_versions == SortedReverse(our_versions \cap their_versions)
        ours            == SortedReverse(our_versions)
    IN  IF shared_versions # <<>>
        THEN Returned("ttp_version_resp", [version |-> format_version(shared_versions[1])])
        ELSE IF ours # <<>>
        THEN Returned("ttp_version_resp", [version |-> format_version(ours[1])])
        ELSE Raised("IndexError")

\* shared_versions[0] of the sorted intersection; IndexError on an empty list.
on_ttp_begin(self, msg) ==
    LET our_versions    == {parse_version(v) : v \in Range(self.VERSIONS_SUPPORTED)}
        their_versions  == {parse_version(v) : v \in Range(msg.versions)}
        shared_versions == SortedReverse(our_versions \cap their_versions)
    IN  IF shared_versions = <<>> THEN Raised("IndexError")
        ELSE Returned("ttp_version_resp", [version |-> format_version(shared_versions[1])])

on_list_ttps(self, msg) == Returned("list_ttps_resp", [ttps |-> self.TTPS_SUPPORTED])

(***************************************************************************)
(* Numbers.  [n, d, k] is the Python number n/d (d > 0, lowest terms) of   *)
(* type k.  A bool is an int to Python's arithmetic (True is 1).           *)
(***************************************************************************)
RECURSIVE GCD(_, _)
GCD(a, b) == IF b = 0 THEN a ELSE GCD(b, a % b)

Abs(x) == IF x < 0 THEN -x ELSE x

Norm(n, d, k) ==
    LET g == GCD(Abs(n), d) IN [n |-> n \div g, d |-> d \div g, k |-> k]

PyInt(n)      == [n |-> n, d |-> 1, k |-> "int"]
PyFloat(n, d) == Norm(n, d, "float")
True        == [n |-> 1, d |-> 1, k |-> "bool"]
False       == [n |-> 0, d |-> 1, k |-> "bool"]

IsFloat(a) == a.k = "float"

\* The type of the result of + - * on a and b.
ArithKind(a, b) == IF IsFloat(a) \/ IsFloat(b) THEN "float" ELSE "int"

NumEq(a, b)   == a.n * b.d = b.n * a.d
NumLess(a, b) == a.n * b.d < b.n * a.d

NumAdd(a, b) == Norm(a.n * b.d + b.n * a.d, a.d * b.d, ArithKind(a, b))
NumSub(a, b) == Norm(a.n * b.d - b.n * a.d, a.d * b.d, ArithKind(a, b))
NumMul(a, b) == Norm(a.n * b.n, a.d * b.d, ArithKind(a, b))
NumAbs(a)    == [n |-> Abs(a.n), d |-> a.d, k |-> IF IsFloat(a) THEN "float" ELSE "int"]

\* a / b of real numbers (b # 0), as a float.
TrueDiv(a, b) ==
    IF b.n > 0 THEN Norm(a.n * b.d, a.d * b.n, "float")
    ELSE Norm(-(a.n * b.d), a.d * (-b.n), "float")

\* a / b as Python 2 computes it (b # 0): of two ints the floor of the
\* quotient, an int; with a float operand the quotient, a float.
PyDiv(a, b) ==
    IF IsFloat(a) \/ IsFloat(b) THEN TrueDiv(a, b)
    ELSE IF b.n > 0 THEN PyInt(a.n \div b.n)
    ELSE PyInt((-a.n) \div (-b.n))

\* min(a, b): the first of the smallest, so a unless b < a.
PyMin(a, b) == IF NumLess(b, a) THEN b ELSE a

(***************************************************************************)
(* Constraints.  A constraint is the record of the keys of its dict; the   *)
(* optional keys "min" and "max" are present when has_min, has_max say so. *)
(* A params dict is a function from parameter names to numbers.            *)
(***************************************************************************)
BoundTypes == {"max", "min", "best"}

\* The result of an evaluation that may raise: the value, or the exception.
Val(v)  == [exc |-> "none", val |-> v]
Exc(e)  == [exc |-> e, val |-> None]

\* The branch without the test of "min" (a faulty variant of BoundMet).
BoundMetMaxOnly(cons, params) ==
    IF cons.type \notin BoundTypes THEN "ok"
    ELSE IF cons.param \notin DOMAIN params THEN "KeyError"
    ELSE IF cons.has_max /\ NumLess(cons.max, params[cons.param]) THEN "False"
    ELSE "ok"

\* The branch with the test of "min" turned round, val > cons["min"] (a
\* faulty variant of BoundMet).
BoundMetMinTurned(cons, params) ==
    IF cons.type \notin BoundTypes THEN "ok"
    ELSE IF cons.param \notin DOMAIN params THEN "KeyError"
    ELSE LET val == params[cons.param]
         IN  IF cons.has_min /\ NumLess(cons.min, val) THEN "False"
             ELSE IF cons.has_max /\ NumLess(cons.max, val) THEN "False"
             ELSE "ok"

\* The max/min/best branch of the loop body of constraints_met: "ok" to go
\* on, "False" to return False, or the exception raised.
BoundMet(cons, params) ==
    IF cons.type \notin BoundTypes THEN "ok"
    ELSE IF cons.param \notin DOMAIN params THEN "KeyError"
    ELSE LET val == params[cons.param]
         IN  IF cons.has_min /\ NumLess(val, cons.min) THEN "False"
             ELSE IF cons.has_max /\ NumLess(cons.max, val) THEN "False"
             ELSE "ok"

\* The ratio branch: ratio = v2 * 1.0 / v1 is the real quotient.
RatioMet(cons, params) ==
    IF cons.type # "ratio" THEN "ok"
    ELSE IF cons.param1 \notin DOMAIN params \/ cons.param2 \notin DOMAIN params THEN "KeyError"
    ELSE LET v1 == params[cons.param1]
             v2 == params[cons.param2]
         IN  IF v1.n = 0 THEN "ZeroDivisionError"
             ELSE LET ratio == TrueDiv(v2, v1)
                  IN  IF cons.has_min /\ NumLess(ratio, cons.min) THEN "False"
                      ELSE IF cons.has_max /\ NumLess(cons.max, ratio) THEN "False"
                      ELSE "ok"

\* Switch.constraints_met: Val(TRUE), Val(FALSE) or the exception.
RECURSIVE constraints_met(_, _)
constraints_met(constraints, params) ==
    IF constraints = <<>> THEN Val(TRUE)
    ELSE LET cons == Head(constraints)
             b    == BoundMet(cons, params)
             r    == RatioMet(cons, params)
         IN  IF b = "False" THEN Val(FALSE)
             ELSE IF b # "ok" THEN Exc(b)
             ELSE IF r = "False" THEN Val(FALSE)
             ELSE IF r # "ok" THEN Exc(r)
             ELSE constraints_met(Tail(constraints), params)

\* What one constraint adds to the score (Val of a number), or the exception.
ScoreTerm(cons, params) ==
    IF cons.type \in BoundTypes THEN
        IF cons.param \notin DOMAIN params THEN Exc("KeyError")
        ELSE LET val == params[cons.param]
             IN  IF cons.type = "max" THEN Val(NumMul(val, cons.score))
                 ELSE IF cons.type = "min" THEN Val(NumSub(PyInt(0), NumMul(val, cons.score)))
                 ELSE IF cons.value.k = "bool"
                      THEN Val(IF NumEq(val, cons.value) THEN cons.score ELSE PyInt(0))
                 ELSE Val(NumMul(NumAbs(NumSub(val, cons.value)), cons.score))
    ELSE IF cons.type = "ratio" THEN
        IF cons.param1 \notin DOMAIN params \/ cons.param2 \notin DOMAIN params
        THEN Exc("KeyError")
        ELSE LET v1 == params[cons.param1]
                 v2 == params[cons.param2]
             IN  IF v1.n = 0 THEN Exc("ZeroDivisionError")
                 ELSE LET ratio == PyDiv(v2, v1)
                      IN  Val(NumSub(PyInt(0), NumMul(NumAbs(NumSub(ratio, cons.ratio)), cons.score)))
    ELSE Val(PyInt(0))

\* Switch.score, from the running total acc.
RECURSIVE ScoreFrom(_, _, _)
ScoreFrom(acc, constraints, params) ==
    IF constraints = <<>> THEN Val(acc)
    ELSE LET t == ScoreTerm(Head(constraints), params)
         IN  IF t.exc # "none" THEN t
             ELSE ScoreFrom(NumAdd(acc, t.val), Tail(constraints), params)

score(constraints, params) == ScoreFrom(PyInt(0), constraints, params)

(***************************************************************************)
(* Python 2's order of dicts and of (score, dict) tuples, which            *)
(* scored_params.sort(reverse=True) uses.                                  *)
(***************************************************************************)
\* The order of the parameter names as strs ("F" < "I" < "M").
KeyRank == ("Feature X" :> 1) @@ ("IPV4 table size" :> 2) @@ ("MAC table size" :> 3)

\* The keys of a that b lacks or maps to another value.
DiffKeys(a, b) == {k \in DOMAIN a : k \notin DOMAIN b \/ ~NumEq(a[k], b[k])}

MinKey(K) == CHOOSE k \in K : \A j \in K : KeyRank[k] <= KeyRank[j]

\* a < b for two dicts: the shorter first; of two of one length, the
\* smallest differing key decides, then its value.
DictLess(a, b) ==
    LET la == Cardinality(DOMAIN a)
        lb == Cardinality(DOMAIN b)
    IN  IF la # lb THEN la < lb
        ELSE IF DiffKeys(a, b) = {} THEN FALSE
        ELSE LET adiff == MinKey(DiffKeys(a, b))
                 bdiff == MinKey(DiffKeys(b, a))
             IN  IF adiff # bdiff THEN KeyRank[adiff] < KeyRank[bdiff]
                 ELSE NumLess(a[adiff], b[bdiff])

\* x < y for two (score, params) tuples.
ScoredLess(x, y) ==
    IF ~NumEq(x[1], y[1]) THEN NumLess(x[1], y[1]) ELSE DictLess(x[2], y[2])

RemoveAt(s, i) == SubSeq(s, 1, i - 1) \o SubSeq(s, i + 1, Len(s))

\* scored_params.sort(reverse=True): descending, equal elements in their
\* original order (the sort is stable).
RECURSIVE SortScoredReverse(_)
SortScoredReverse(s) ==
    IF s = <<>> THEN <<>>
    ELSE LET i == CHOOSE i \in 1..Len(s) :
                      /\ \A j \in 1..Len(s) : ~ScoredLess(s[i], s[j])
                      /\ \A j \in 1..(i - 1) : ScoredLess(s[j], s[i])
         IN  <<s[i]>> \o SortScoredReverse(RemoveAt(s, i))

(***************************************************************************)
(* class SimpleIPv4Switch                                                  *)
(***************************************************************************)
\* The comprehension without its condition: every candidate is kept (a
\* faulty variant of AvailableParams).
AvailableParamsUnfiltered(cons, candidates) == Val(candidates)

\* [p for p in candidates if self.constraints_met(cons, p)]: Val of the list,
\* or the first exception.
RECURSIVE AvailableParams(_, _)
AvailableParams(cons, candidates) ==
    IF candidates = <<>> THEN Val(<<>>)
    ELSE LET m == constraints_met(cons, Head(candidates))
         IN  IF m.exc # "none" THEN m
             ELSE LET rest == AvailableParams(cons, Tail(candidates))
                  IN  IF rest.exc # "none" THEN rest
                      ELSE Val((IF m.val THEN <<Head(candidates)>> ELSE <<>>) \o rest.val)

\* [(self.score(cons, p), p) for p in available_params]
RECURSIVE ScoredParams(_, _)
ScoredParams(cons, available) ==
    IF available = <<>> THEN Val(<<>>)
    ELSE LET sc == score(cons, Head(available))
         IN  IF sc.exc # "none" THEN sc
             ELSE LET rest == ScoredParams(cons, Tail(available))
                  IN  IF rest.exc # "none" THEN rest
                      ELSE Val(<<(<<sc.val, Head(available)>>)>> \o rest.val)

Simple_on_ttp_query(self, msg) ==
    LET ttp  == <<msg.ttp_name, msg.ttp_version>>
        cons == msg.param_constraints
    IN  IF ttp \notin DOMAIN self.PARAM_SETS THEN Raised("KeyError")
        ELSE LET available_params == AvailableParams(cons, self.PARAM_SETS[ttp])
             IN  IF available_params.exc # "none" THEN Raised(available_params.exc)
                 ELSE LET scored == ScoredParams(cons, available_params.val)
                      IN  IF scored.exc # "none" THEN Raised(scored.exc)
                          ELSE LET scored_params == SortScoredReverse(scored.val)
                               IN  IF scored_params = <<>>
                                   THEN Returned("ttp_query_resp_err", [error |-> "No match"])
                                   ELSE Returned("ttp_query_resp",
                                                 [params |-> scored_params[1][2]])

(***************************************************************************)
(* class VariableIPv4Switch                                                *)
(***************************************************************************)
\* The memory slots on_ttp_query assumes, and the step of its loop.
MemorySlots == 10000
SlotStep == 100

\* The branch with "best" moving the value to the target from either side
\* (a faulty variant of ApplyBound).
ApplyBoundToTarget(cons, params) ==
    IF cons.param \notin DOMAIN params THEN
        IF cons.has_max \/ cons.type = "best" THEN Exc("KeyError") ELSE Val(params)
    ELSE LET p1 == IF cons.has_max
                   THEN [params EXCEPT ![cons.param] = PyMin(cons.max, params[cons.param])]
                   ELSE params
         IN  IF cons.type = "best"
             THEN Val([p1 EXCEPT ![cons.param] = cons.value])
             ELSE Val(p1)

\* The max/min/best branch of the loop body of apply_constraints.
ApplyBound(cons, params) ==
    IF cons.param \notin DOMAIN params THEN
        \* params[param] is read when "max" is a key, or when the type is "best"
        IF cons.has_max \/ cons.type = "best" THEN Exc("KeyError") ELSE Val(params)
    ELSE LET p1 == IF cons.has_max
                   THEN [params EXCEPT ![cons.param] = PyMin(cons.max, params[cons.param])]
                   ELSE params
         IN  IF cons.type = "best" /\ NumLess(cons.value, p1[cons.param])
             THEN Val([p1 EXCEPT ![cons.param] = cons.value])
             ELSE Val(p1)

\* The ratio branch: v1 and v2 are read once, before either is changed, and
\* the "min" step multiplies by cons["max"].
ApplyRatio(cons, params) ==
    IF cons.param1 \notin DOMAIN params \/ cons.param2 \notin DOMAIN params THEN Exc("KeyError")
    ELSE LET v1 == params[cons.param1]
             v2 == params[cons.param2]
         IN  IF cons.has_max /\ cons.max.n = 0 THEN Exc("ZeroDivisionError")
             ELSE IF cons.has_min /\ ~cons.has_max THEN Exc("KeyError")
             ELSE LET p1 == IF cons.has_max
                            THEN [params EXCEPT ![cons.param2] = PyMin(v2, PyDiv(v1, cons.max))]
                            ELSE params
                  IN  IF cons.has_min
                      THEN Val([p1 EXCEPT ![cons.param1] = PyMin(v1, NumMul(v2, cons.max))])
                      ELSE Val(p1)

\* VariableIPv4Switch.apply_constraints: Val of params as the pass leaves
\* it, or the exception.
RECURSIVE apply_constraints(_, _)
apply_constraints(constraints, params) ==
    IF constraints = <<>> THEN Val(params)
    ELSE LET cons == Head(constraints)
             r    == IF cons.type \in BoundTypes THEN ApplyBound(cons, params)
                     ELSE IF cons.type = "ratio" THEN ApplyRatio(cons, params)
                     ELSE Val(params)
         IN  IF r.exc # "none" THEN r ELSE apply_constraints(Tail(constraints), r.val)

\* params of the split with num_macs MAC entries.
SplitParams(num_macs) ==
    ("IPV4 table size" :> PyInt(MemorySlots - num_macs)) @@ ("MAC table size" :> PyInt(num_macs))

\* The pass without the test of constraints_met: every split is scored (a
\* faulty variant of SearchStep).
SearchStepUnchecked(cons, best, num_macs) ==
    LET applied == apply_constraints(cons, SplitParams(num_macs))
    IN  IF applied.exc # "none" THEN applied
        ELSE LET sc == score(cons, applied.val)
             IN  IF sc.exc # "none" THEN sc
                 ELSE IF best.score = None \/ NumLess(best.score, sc.val)
                      THEN Val([score |-> sc.val, params |-> applied.val])
                      ELSE Val(best)

\* The pass with score >= best_score: an equal score replaces the best (a
\* faulty variant of SearchStep).
SearchStepLastWins(cons, best, num_macs) ==
    LET applied == apply_constraints(cons, SplitParams(num_macs))
    IN  IF applied.exc # "none" THEN applied
        ELSE LET met == constraints_met(cons, applied.val)
             IN  IF met.exc # "none" THEN met
                 ELSE IF ~met.val THEN Val(best)
                 ELSE LET sc == score(cons, applied.val)
                      IN  IF sc.exc # "none" THEN sc
                          ELSE IF best.score = None \/ ~NumLess(sc.val, best.score)
                               THEN Val([score |-> sc.val, params |-> applied.val])
                               ELSE Val(best)

\* One pass of the loop of on_ttp_query on the state best = [score, params]
\* (both None at first): Val of the new best, or the exception.
SearchStep(cons, best, num_macs) ==
    LET applied == apply_constraints(cons, SplitParams(num_macs))
    IN  IF applied.exc # "none" THEN applied
        ELSE LET met == constraints_met(cons, applied.val)
             IN  IF met.exc # "none" THEN met
                 ELSE IF ~met.val THEN Val(best)
                 ELSE LET sc == score(cons, applied.val)
                      IN  IF sc.exc # "none" THEN sc
                          ELSE IF best.score = None \/ NumLess(best.score, sc.val)
                               THEN Val([score |-> sc.val, params |-> applied.val])
                               ELSE Val(best)

\* The passes of the loop for num_macs = lo, lo + 100, ... below hi, in that
\* order, from the state best; an exception ends the loop.  (The range is
\* halved so that the evaluation does not nest one level per pass.)
RECURSIVE SearchRange(_, _, _, _)
SearchRange(cons, best, lo, hi) ==
    IF lo >= hi THEN Val(best)
    ELSE IF hi - lo <= SlotStep THEN SearchStep(cons, best, lo)
    ELSE LET mid == lo + SlotStep * (((hi - lo) \div SlotStep) \div 2)
             r   == SearchRange(cons, best, lo, mid)
         IN  IF r.exc # "none" THEN r ELSE SearchRange(cons, r.val, mid, hi)

Variable_on_ttp_query(self, msg) ==
    \* for num_macs in xrange(0, 10000, 100)
    LET r == SearchRange(msg.param_constraints, [score |-> None, params |-> None],
                         0, MemorySlots)
    IN  IF r.exc # "none" THEN Raised(r.exc)
        ELSE Returned("ttp_query_resp", [params |-> r.val.params])

(***************************************************************************)
(* Switch.handle_msg                                                       *)
(***************************************************************************)
\* A dict without keys (the default payload of handle_msg).
EmptyDict == <<>>

\* The kinds k for which the class defines a method on_k.
Handlers(cls) ==
    IF cls = "Switch" THEN {"ttp_begin", "list_ttps"}
    ELSE {"ttp_begin", "list_ttps", "ttp_query"}

\* method(payload), for the handler getattr found.  A key the handler reads
\* and the payload lacks raises KeyError.
CallHandler(self, msg_type, payload) ==
    IF msg_type = "ttp_begin" THEN
        IF "versions" \notin DOMAIN payload THEN Raised("KeyError")
        ELSE on_ttp_begin(self, payload)
    ELSE IF msg_type = "list_ttps" THEN on_list_ttps(self, payload)
    ELSE IF self.cls = "SimpleIPv4Switch" THEN
        IF {"ttp_name", "ttp_version", "param_constraints"} \subseteq DOMAIN payload
        THEN Simple_on_ttp_query(self, payload)
        ELSE Raised("KeyError")
    ELSE
        IF "param_constraints" \in DOMAIN payload
        THEN Variable_on_ttp_query(self, payload)
        ELSE Raised("KeyError")

\* handle_msg that skips a kind without handler and returns None (a faulty
\* variant of handle_msg).
handle_msg_ignoring(self, msg_type, payload) ==
    IF msg_type \notin Handlers(self.cls) THEN Returned("", None)
    ELSE CallHandler(self, msg_type, payload)

\* getattr raises AttributeError for a kind without handler; the except
\* clause names KeyError, so the exception leaves handle_msg as it is.
handle_msg(self, msg_type, payload) ==
    IF msg_type \notin Handlers(self.cls) THEN Raised("AttributeError")
    ELSE CallHandler(self, msg_type, payload)

(***************************************************************************)
(* The TTP identifiers and parameter sets of the source.  A TTP name is a  *)
(* str whose fixed leading text is held as one element.                    *)
(***************************************************************************)
OnfPrefix == "org.opennetworking/ttps/"

NameIPV4andIPV6 == <<OnfPrefix, "I", "P", "V", "4", "+", "I", "P", "V", "6">>
NameIPV4        == <<OnfPrefix, "I", "P", "V", "4">>
NameIPV6        == <<OnfPrefix, "I", "P", "V", "6">>
NamePrivate     == <<"com.metaswitch/ttps/PrivateSwitch">>

TextIPV4andIPV6 == <<"I", "P", "V", "4", "+", "I", "P", "V", "6">>
TextIPV4        == <<"I", "P", "V", "4">>
TextIPV6        == <<"I", "P", "V", "6">>

V10 == <<"1", ".", "0">>
V20 == <<"2", ".", "0">>

Simple_TTPS_SUPPORTED ==
    << <<NameIPV4, "2.0">>, <<NameIPV4, "1.0">>, <<NamePrivate, "2.0">> >>

Variable_TTPS_SUPPORTED == << <<NameIPV4, "1.0">> >>

Params2(ip, mac) ==
    ("IPV4 table size" :> PyInt(ip)) @@ ("MAC table size" :> PyInt(mac))

Params3(ip, mac, x) ==
    ("IPV4 table size" :> PyInt(ip)) @@ ("MAC table size" :> PyInt(mac)) @@ ("Feature X" :> x)

PARAM_SETS ==
    (<<NameIPV4, "1.0">> :> <<Params2(1000, 10000), Params2(5000, 5000), Params2(10000, 2000)>>)
    @@
    (<<NameIPV4, "2.0">> :> <<Params3(1000, 10000, True), Params3(5000, 5000, False),
                              Params3(4000, 4000, True), Params3(10000, 2000, True)>>)

\* A switch object.
SwitchObj(cls, versions, ttps, catalog) ==
    [cls |-> cls, VERSIONS_SUPPORTED |-> versions, TTPS_SUPPORTED |-> ttps,
     PARAM_SETS |-> catalog]

\* The objects Switch(), SimpleIPv4Switch() and VariableIPv4Switch().
BaseSwitch     == SwitchObj("Switch", <<V10>>, <<>>, EmptyDict)
SimpleSwitch   == SwitchObj("SimpleIPv4Switch", <<V10>>, Simple_TTPS_SUPPORTED, PARAM_SETS)
VariableSwitch == SwitchObj("VariableIPv4Switch", <<V10>>, Variable_TTPS_SUPPORTED, EmptyDict)

(***************************************************************************)
(* class OFCP                                                              *)
(***************************************************************************)
PREFERRED_TTPS ==
    << <<NameIPV4andIPV6, "2.0">>, <<NameIPV4, "2.0">>, <<NameIPV4, "1.0">>, <<NameIPV6, "1.0">> >>

\* A max/min/best constraint; value is read for "best" only.
BoundCons(type, param, has_min, min, has_max, max, value, weight) ==
    [type |-> type, param |-> param, param1 |-> "", param2 |-> "",
     has_min |-> has_min, min |-> min, has_max |-> has_max, max |-> max,
     value |-> value, ratio |-> PyInt(0), score |-> weight]

RatioCons(param1, param2, has_min, min, has_max, max, ratio, weight) ==
    [type |-> "ratio", param |-> "", param1 |-> param1, param2 |-> param2,
     has_min |-> has_min, min |-> min, has_max |-> has_max, max |-> max,
     value |-> PyInt(0), ratio |-> ratio, score |-> weight]

\* The three constraints of the dict literal of negotiate_ipv4.
ConsIPV4  == BoundCons("max", "IPV4 table size", TRUE, PyInt(3000), TRUE, PyInt(10000),
                       PyInt(0), PyInt(11))
ConsMAC   == BoundCons("best", "MAC table size", TRUE, PyInt(3000), TRUE, PyInt(7000),
                       PyInt(6000), PyInt(10))
ConsRatio == RatioCons("IPV4 table size", "MAC table size", TRUE, PyFloat(8, 10),
                       TRUE, PyFloat(12, 10), PyFloat(11, 10), PyInt(9000))
\* The constraint appended for version "2.0".
ConsFeatureX == BoundCons("best", "Feature X", FALSE, PyInt(0), FALSE, PyInt(0),
                          True, PyInt(1001))

BaseConstraints == <<ConsIPV4, ConsMAC, ConsRatio>>

\* The message built on one list the calls share: the list of the call
\* before is taken up and appended to (a faulty variant of
\* BuildNegotiationMsg).
BuildNegotiationMsgShared(prev, ttp_name, ttp_version) ==
    LET shared == IF prev = None THEN BaseConstraints ELSE prev.param_constraints
    IN  [ttp_name |-> ttp_name, ttp_version |-> ttp_version,
         param_constraints |-> IF ttp_version = "2.0"
                               THEN Append(shared, ConsFeatureX)
                               ELSE shared]

\* negotiation_msg as negotiate_ipv4 builds it: a new dict and a new list on
\* every call (prev, the message of the call before, is not read).
BuildNegotiationMsg(prev, ttp_name, ttp_version) ==
    [ttp_name |-> ttp_name, ttp_version |-> ttp_version,
     param_constraints |-> IF ttp_version = "2.0"
                           THEN Append(BaseConstraints, ConsFeatureX)
                           ELSE BaseConstraints]

\* Phase (2) sending ttp_begin once more (a faulty variant of ListRequest).
ListRequestBacktracking == [kind |-> "ttp_begin", payload |-> [versions |-> <<V10, V20>>]]

\* The request of phase (1) and of phase (2).
BeginRequest == [kind |-> "ttp_begin", payload |-> [versions |-> <<V10, V20>>]]
ListRequest  == [kind |-> "list_ttps", payload |-> EmptyDict]
QueryRequest(msg) == [kind |-> "ttp_query", payload |-> msg]

\* The loop turned round: the first entry of ttps that is in PREFERRED_TTPS
\* (a faulty variant of FirstPreferred).
RECURSIVE FirstAdvertised(_, _)
FirstAdvertised(preferred, ttps) ==
    IF ttps = <<>> THEN NoneTuple
    ELSE IF Head(ttps) \in Range(preferred) THEN Head(ttps)
    ELSE FirstAdvertised(preferred, Tail(ttps))

\* The loop over PREFERRED_TTPS: the first entry that is in ttps, or None.
RECURSIVE FirstPreferred(_, _)
FirstPreferred(preferred, ttps) ==
    IF preferred = <<>> THEN NoneTuple
    ELSE IF Head(preferred) \in Range(ttps) THEN Head(preferred)
    ELSE FirstPreferred(Tail(preferred), ttps)

\* The chain with "IPV4" tested first (a faulty variant of Family).
FamilyIPV4First(ttp_name) ==
    IF Contains(TextIPV4, ttp_name) THEN "negotiate_ipv4"
    ELSE IF Contains(TextIPV4andIPV6, ttp_name) THEN "negotiate_ipv4_and_ipv6"
    ELSE IF Contains(TextIPV6, ttp_name) THEN "negotiate_ipv6"
    ELSE "none"

\* The if / elif chain of step (3): the routine the TTP name selects.
Family(ttp_name) ==
    IF Contains(TextIPV4andIPV6, ttp_name) THEN "negotiate_ipv4_and_ipv6"
    ELSE IF Contains(TextIPV4, ttp_name) THEN "negotiate_ipv4"
    ELSE IF Contains(TextIPV6, ttp_name) THEN "negotiate_ipv6"
    ELSE "none"

(***************************************************************************)
(* The state.                                                              *)
(*   sw               the switch object of the current call (None: idle)   *)
(*   pc               where the caller of handle_msg stands: "idle",       *)
(*                    "wait_begin", "wait_list", "wait_query" (inside      *)
(*                    negotiate_with, blocked in handle_msg), "done"       *)
(*                    (negotiate_with is over), "direct" (inside a call of *)
(*                    handle_msg from outside OFCP), "direct_done"         *)
(*   req, resp        the message passed to handle_msg and what the call   *)
(*                    gave back (None: not yet)                            *)
(*   events           the requests and responses of the current session    *)
(*   preferred_ttp    the local of negotiate_with                          *)
(*   negotiation_msg  the dict negotiate_ipv4 built last                   *)
(*   outcome          how the current call ended                           *)
(*   logged           the _log.error lines of the current session          *)
(*   queries          the negotiation_msg dicts the negotiate_ipv4 calls   *)
(*                    so far passed to handle_msg, oldest first            *)
(***************************************************************************)
NoCall        == [how |-> "none", exc |-> "none"]
Running       == [how |-> "running", exc |-> "none"]
ReturnedNone  == [how |-> "returned", exc |-> "none"]
RaisedOut(e)  == [how |-> "raised", exc |-> e]

\* An entry of events: a request as handle_msg got it, a response as
\* handle_msg gave it back (exc: the exception that left it instead).
ReqEvent(r)  == [dir |-> "req", kind |-> r.kind, exc |-> "none", payload |-> r.payload]
RespEvent(r) == [dir |-> "resp", kind |-> r.kind, exc |-> r.exc, payload |-> r.payload]

\* The version strings and TTP identifiers the switches of the model draw on.
V30 == <<"3", ".", "0">>
SessionVersions == {V10, V20, V30}
TtpPool == Range(PREFERRED_TTPS) \cup {<<NamePrivate, "2.0">>}

VersionLists == SeqsUpTo(SessionVersions, MaxVers)
TtpLists     == InjSeqsUpTo(TtpPool, MaxTtps) \cup {Simple_TTPS_SUPPORTED}

Classes == {"Switch", "SimpleIPv4Switch", "VariableIPv4Switch"}

CatalogOf(cls) == IF cls = "SimpleIPv4Switch" THEN PARAM_SETS ELSE EmptyDict

\* The switches negotiate_with is run against: each class with the
\* VERSIONS_SUPPORTED of the source and any TTP list, or with the TTP list of
\* the source (of SimpleIPv4Switch) and any VERSIONS_SUPPORTED.
Switches ==
    {SwitchObj(c, <<V10>>, t, CatalogOf(c)) : c \in Classes, t \in TtpLists}
    \cup {SwitchObj(c, v, Simple_TTPS_SUPPORTED, CatalogOf(c)) : c \in Classes, v \in VersionLists}

\* The switch objects the source constructs, and the base class's.
SourceSwitches == {BaseSwitch, SimpleSwitch, VariableSwitch}

Init ==
    /\ sw = None
    /\ pc = "idle"
    /\ req = None
    /\ resp = None
    /\ events = <<>>
    /\ preferred_ttp = NoneTuple
    /\ negotiation_msg = None
    /\ queries = <<>>
    /\ outcome = NoCall
    /\ logged = <<>>

\* The call of handle_msg that req stands for runs in the switch.
SwitchHandle ==
    /\ req # None
    /\ resp = None
    /\ resp' = handle_msg(sw, req.kind, req.payload)
    /\ events' = Append(events, RespEvent(resp'))
    /\ UNCHANGED <<sw, pc, req, preferred_ttp, negotiation_msg, queries, outcome, logged>>

\* negotiate_with(switch) is called and sends the request of phase (1).
NegotiateWith(switch) ==
    /\ pc = "idle"
    /\ Len(queries) < MaxQueries
    /\ sw' = switch
    /\ pc' = "wait_begin"
    /\ req' = BeginRequest
    /\ resp' = None
    /\ events' = <<ReqEvent(BeginRequest)>>
    /\ preferred_ttp' = NoneTuple
    /\ outcome' = Running
    /\ logged' = <<>>
    /\ UNCHANGED <<negotiation_msg, queries>>

\* The session ends: negotiate_with returns None or lets the exception out.
EndSession(how) ==
    /\ pc' = "done"
    /\ outcome' = how
    /\ UNCHANGED <<sw, req, resp, events>>

\* The session goes on with the next request.
SendNext(next_pc, r) ==
    /\ pc' = next_pc
    /\ req' = r
    /\ resp' = None
    /\ events' = Append(events, ReqEvent(r))
    /\ UNCHANGED <<sw, outcome, logged>>

\* handle_msg("ttp_begin") is back: resp["version"] is read and phase (2)
\* sends list_ttps.
AfterBegin ==
    /\ pc = "wait_begin"
    /\ resp # None
    /\ IF resp.exc # "none"
       THEN EndSession(RaisedOut(resp.exc)) /\ UNCHANGED <<preferred_ttp, negotiation_msg, queries, logged>>
       ELSE IF "version" \notin DOMAIN resp.payload
       THEN EndSession(RaisedOut("KeyError")) /\ UNCHANGED <<preferred_ttp, negotiation_msg, queries, logged>>
       ELSE SendNext("wait_list", ListRequest) /\ UNCHANGED <<preferred_ttp, negotiation_msg, queries>>

\* handle_msg("list_ttps") is back: the preferred TTP is chosen and step (3)
\* runs the routine of its family.
AfterList ==
    /\ pc = "wait_list"
    /\ resp # None
    /\ IF resp.exc # "none"
       THEN EndSession(RaisedOut(resp.exc)) /\ UNCHANGED <<preferred_ttp, negotiation_msg, queries, logged>>
       ELSE IF "ttps" \notin DOMAIN resp.payload
       THEN EndSession(RaisedOut("KeyError")) /\ UNCHANGED <<preferred_ttp, negotiation_msg, queries, logged>>
       ELSE LET chosen == FirstPreferred(PREFERRED_TTPS, resp.payload.ttps)
            IN  /\ preferred_ttp' = chosen
                /\ IF chosen = NoneTuple
                   THEN /\ EndSession(ReturnedNone)
                        /\ logged' = Append(logged, "Negotiation failed, no shared TTPs")
                        /\ UNCHANGED <<negotiation_msg, queries>>
                   ELSE LET routine == Family(chosen[1])
                        IN  IF routine = "negotiate_ipv4"
                            THEN /\ negotiation_msg' =
                                        BuildNegotiationMsg(negotiation_msg, chosen[1], chosen[2])
                                 /\ queries' = Append(queries, negotiation_msg')
                                 /\ SendNext("wait_query", QueryRequest(negotiation_msg'))
                            ELSE IF routine = "none"
                            THEN /\ EndSession(ReturnedNone)
                                 /\ UNCHANGED <<negotiation_msg, queries, logged>>
                            ELSE /\ EndSession(RaisedOut("NotImplementedError"))
                                 /\ UNCHANGED <<negotiation_msg, queries, logged>>

\* handle_msg("ttp_query") is back: its value is dropped and negotiate_with
\* returns None.
AfterQuery ==
    /\ pc = "wait_query"
    /\ resp # None
    /\ IF resp.exc # "none"
       THEN EndSession(RaisedOut(resp.exc))
       ELSE EndSession(ReturnedNone)
    /\ UNCHANGED <<preferred_ttp, negotiation_msg, queries, logged>>

(***************************************************************************)
(* handle_msg called from outside OFCP (a test, another controller).       *)
(***************************************************************************)
DirectCall(switch, r) ==
    /\ pc = "idle"
    /\ sw' = switch
    /\ pc' = "direct"
    /\ req' = r
    /\ resp' = None
    /\ events' = <<ReqEvent(r)>>
    /\ preferred_ttp' = NoneTuple
    /\ outcome' = Running
    /\ logged' = <<>>
    /\ UNCHANGED <<negotiation_msg, queries>>

DirectReturn ==
    /\ pc = "direct"
    /\ resp # None
    /\ pc' = "direct_done"
    /\ outcome' = IF resp.exc # "none" THEN RaisedOut(resp.exc) ELSE ReturnedNone
    /\ UNCHANGED <<sw, req, resp, events, preferred_ttp, negotiation_msg, queries, logged>>

\* The caller goes on after the call: the switch object, the messages and
\* the locals of the call are dropped.
Forget ==
    /\ pc \in {"done", "direct_done"}
    /\ pc' = "idle"
    /\ sw' = None
    /\ req' = None
    /\ resp' = None
    /\ events' = <<>>
    /\ preferred_ttp' = NoneTuple
    /\ outcome' = NoCall
    /\ logged' = <<>>
    /\ UNCHANGED <<negotiation_msg, queries>>

\* The messages the direct calls of Spec pass: the three kinds with the
\* payloads OFCP builds, and kinds no class has a handler for.
DirectRequests ==
    {BeginRequest, ListRequest,
     QueryRequest(BuildNegotiationMsg(None, NameIPV4, "1.0")),
     [kind |-> "not_a_real_kind", payload |-> EmptyDict],
     [kind |-> "not_a_real_kind", payload |-> [versions |-> <<V10>>]],
     QueryRequest([ttp_name |-> NamePrivate, ttp_version |-> "2.0",
                   param_constraints |-> <<>>]),
     [kind |-> "msg", payload |-> EmptyDict]}

Next ==
    \/ \E switch \in Switches : NegotiateWith(switch)
    \/ SwitchHandle
    \/ AfterBegin
    \/ AfterList
    \/ AfterQuery
    \/ \E switch \in SourceSwitches, r \in DirectRequests : DirectCall(switch, r)
    \/ DirectReturn
    \/ Forget

Spec == Init /\ [][Next]_vars

(***************************************************************************)
(* Properties of negotiate_with (under Spec).                              *)
(***************************************************************************)
SessionPcs == {"wait_begin", "wait_list", "wait_query", "done"}

InSession == pc \in SessionPcs

RequestOrder == <<"ttp_begin", "list_ttps", "ttp_query">>

\* The kinds of the requests of the current session, in the order sent.
RequestKinds == SelectSeq(events, LAMBDA e : e.dir = "req")

QuerySent == \E i \in 1..Len(events) : events[i].dir = "req" /\ events[i].kind = "ttp_query"

\* C1: in a run of negotiate_with the events are request, response, request,
\* response, ... (a request follows the response to the one before, and no
\* two exchanges overlap), and the k-th request is the k-th of ttp_begin,
\* list_ttps, ttp_query: a prefix of that sequence, each kind at most once.
C1_RequestsInOrder ==
    InSession =>
        /\ \A i \in 1..Len(events) :
               events[i].dir = (IF i % 2 = 1 THEN "req" ELSE "resp")
        /\ Len(RequestKinds) <= Len(RequestOrder)
        /\ \A k \in 1..Len(RequestKinds) : RequestKinds[k].kind = RequestOrder[k]

\* A session that went through all three exchanges.
C1_Witness ==
    /\ pc = "done"
    /\ Len(events) = 6
    /\ events[5].kind = "ttp_query"
    /\ events[6].kind = "ttp_query_resp"

\* The list_ttps exchange of the current session is over and was read.
ListRead ==
    /\ pc \in {"wait_query", "done"}
    /\ Len(events) >= 4
    /\ events[4].kind = "list_ttps_resp"

PreferredAdvertised(ttps) == {i \in 1..Len(PREFERRED_TTPS) : PREFERRED_TTPS[i] \in Range(ttps)}

\* C3: once list_ttps_resp is read, preferred_ttp is the entry of
\* PREFERRED_TTPS of least index that is in the ttps of the response; when
\* there is none, the session is over after the two exchanges, the failure
\* is logged and no ttp_query was sent.
C3_ControllerPreferenceGoverns ==
    ListRead =>
        LET adv == PreferredAdvertised(events[4].payload.ttps)
        IN  IF adv # {}
            THEN preferred_ttp = PREFERRED_TTPS[CHOOSE i \in adv : \A j \in adv : i <= j]
            ELSE /\ preferred_ttp = NoneTuple
                 /\ pc = "done"
                 /\ Len(events) = 4
                 /\ ~QuerySent
                 /\ logged = <<"Negotiation failed, no shared TTPs">>

\* The switch lists IPV4 1.0 before IPV4 2.0, and the controller takes 2.0.
C3_Witness ==
    /\ ListRead
    /\ events[4].payload.ttps = << <<NameIPV4, "1.0">>, <<NameIPV4, "2.0">> >>
    /\ preferred_ttp = <<NameIPV4, "2.0">>

ParsedSet(versions) == {parse_version(v) : v \in Range(versions)}

\* The ttp_begin call of the current session is over, and the versions the
\* switch supports and the versions offered share none.
BeginWithoutSharedVersion ==
    /\ InSession
    /\ Len(events) >= 2
    /\ ParsedSet(sw.VERSIONS_SUPPORTED) \cap ParsedSet(events[1].payload.versions) = {}

\* C4: without a shared version the ttp_begin call gives no response (an
\* exception leaves handle_msg), nothing is sent after it, and
\* negotiate_with ends by that exception.
C4_NoSharedVersionIsFatal ==
    BeginWithoutSharedVersion =>
        /\ events[2].exc # "none"
        /\ events[2].kind # "ttp_version_resp"
        /\ Len(events) = 2
        /\ pc \in {"wait_begin", "done"}
        /\ pc = "done" => outcome.how = "raised"

C4_Witness ==
    /\ BeginWithoutSharedVersion
    /\ pc = "done"
    /\ outcome = RaisedOut("IndexError")

\* The name is of a family negotiate_with has no negotiation for.
Unimplemented(ttp_name) ==
    \/ Contains(TextIPV4andIPV6, ttp_name)
    \/ Contains(TextIPV6, ttp_name) /\ ~Contains(TextIPV4, ttp_name)

\* C5: when the chosen TTP is of the combined or of the pure IPv6 family,
\* negotiate_with ends by NotImplementedError and the session has sent no
\* ttp_query.
C5_UnimplementedFamiliesRaise ==
    (InSession /\ preferred_ttp # NoneTuple /\ Unimplemented(preferred_ttp[1])) =>
        /\ pc = "done"
        /\ outcome = RaisedOut("NotImplementedError")
        /\ ~QuerySent

C5_Witness ==
    /\ pc = "done"
    /\ preferred_ttp = <<NameIPV6, "1.0">>
    /\ outcome = RaisedOut("NotImplementedError")
    /\ ~QuerySent

\* The session went through the three phases and the switch returned a
\* parameter set.
SessionSucceeded ==
    /\ Len(events) = 6
    /\ events[6].kind = "ttp_query_resp"
    /\ events[6].payload.params # None
    /\ outcome.how = "returned"

\* The session ended with an error: an exception left negotiate_with, or the
\* switch answered the query with the structured error.
SessionFailedWithError ==
    \/ outcome.how = "raised"
    \/ Len(events) = 6 /\ events[6].kind = "ttp_query_resp_err"

\* C6: a session that is over either succeeded (three phases, a parameter
\* set returned) or ended with an error; none ends normally without a
\* parameter set.
C6_SuccessOrTypedError ==
    pc = "done" => (SessionSucceeded \/ SessionFailedWithError)

\* C10: a call of handle_msg with a kind the switch has no handler for ends
\* by an exception (AttributeError), not by a response, and no call of
\* handle_msg changes the switch object.
C10_UnknownKindRaises ==
    /\ [](  (req # None /\ resp # None /\ req.kind \notin Handlers(sw.cls))
            => (resp = Raised("AttributeError")))
    /\ [][(resp = None /\ resp' # None) => sw' = sw]_vars

C10_Witness ==
    /\ pc = "direct_done"
    /\ req.kind = "not_a_real_kind"
    /\ resp = Raised("AttributeError")
    /\ outcome = RaisedOut("AttributeError")

(***************************************************************************)
(* on_ttp_begin on any supported and any offered list (SpecBegin).         *)
(***************************************************************************)
V110 == <<"1", ".", "1", "0">>
V12  == <<"1", ".", "2">>
V1a  == <<"1", ".", "a">>

BeginVersions == {V10, V20, V110, V12, V1a}
BeginLists    == SeqsUpTo(BeginVersions, MaxVers)

BeginCall ==
    /\ pc = "idle"
    /\ \E supported \in BeginLists, offered \in BeginLists :
        DirectCall(SwitchObj("Switch", supported, <<>>, EmptyDict),
                   [kind |-> "ttp_begin", payload |-> [versions |-> offered]])

NextBegin ==
    \/ BeginCall
    \/ SwitchHandle
    \/ DirectReturn
    \/ Forget

SpecBegin == Init /\ [][NextBegin]_vars

\* t is below u in the component-wise order: at the first place where they
\* differ t has the smaller component, or t ends there.
VersionBelow(t, u) ==
    \E i \in 1..Len(u) :
        /\ \A j \in 1..(i - 1) : j <= Len(t) /\ t[j] = u[j]
        /\ \/ i > Len(t)
           \/ t[i] # u[i] /\ CompLess(t[i], u[i])

\* A ttp_begin call that is over.
BeginAnswered == req # None /\ req.kind = "ttp_begin" /\ resp # None

\* C2: when the parsed supported and offered versions share a version,
\* on_ttp_begin answers ttp_version_resp with the text of the greatest shared
\* version; supported 1.0 with offered 1.0, 2.0 gives 1.0, and supported
\* 1.0, 2.0 with offered 1.0, 2.0 gives 2.0.
C2_HighestSharedVersion ==
    BeginAnswered =>
        LET shared == ParsedSet(sw.VERSIONS_SUPPORTED) \cap ParsedSet(req.payload.versions)
        IN  /\ shared # {} =>
                 \E g \in shared :
                     /\ \A w \in shared : w = g \/ VersionBelow(w, g)
                     /\ resp = Returned("ttp_version_resp", [version |-> format_version(g)])
            /\ (sw.VERSIONS_SUPPORTED = <<V10>> /\ req.payload.versions = <<V10, V20>>)
                   => resp = Returned("ttp_version_resp", [version |-> V10])
            /\ (sw.VERSIONS_SUPPORTED = <<V10, V20>> /\ req.payload.versions = <<V10, V20>>)
                   => resp = Returned("ttp_version_resp", [version |-> V20])

\* Two shared versions, the greater one by number and not by text: 1.10.
C2_Witness ==
    /\ BeginAnswered
    /\ sw.VERSIONS_SUPPORTED = <<V110, V12>>
    /\ req.payload.versions = <<V12, V110>>
    /\ resp = Returned("ttp_version_resp", [version |-> V110])

(***************************************************************************)
(* Constraint lists for the queries of SpecCatalog and SpecSearch.         *)
(***************************************************************************)
\* A lower bound no split and no candidate of the model reaches.
ConsTooBig == BoundCons("max", "IPV4 table size", TRUE, PyInt(20000), FALSE, PyInt(0),
                        PyInt(0), PyInt(1))
\* Fewer MAC entries are better, at least 2000.
ConsFewMACs == BoundCons("min", "MAC table size", TRUE, PyInt(2000), FALSE, PyInt(0),
                         PyInt(0), PyInt(3))
\* A ratio with a lower bound and no upper bound.
ConsRatioMinOnly == RatioCons("IPV4 table size", "MAC table size", TRUE, PyFloat(1, 2),
                              FALSE, PyInt(0), PyInt(1), PyInt(100))

\* The lists negotiate_ipv4 sends.
SourceConsLists == {BaseConstraints, Append(BaseConstraints, ConsFeatureX)}

(***************************************************************************)
(* SimpleIPv4Switch.on_ttp_query on any catalog and constraint list        *)
(* (SpecCatalog).                                                          *)
(***************************************************************************)
CandidatePool == {Params2(1000, 10000), Params2(5000, 5000), Params2(5000, 7000)}

Catalogs ==
    {PARAM_SETS}
    \cup {(<<NameIPV4, "1.0">> :> c) : c \in SeqsUpTo(CandidatePool, MaxCands)}

CatalogConsPool == {ConsIPV4, ConsMAC, ConsRatio, ConsFeatureX, ConsTooBig}

CatalogConsLists == SeqsUpTo(CatalogConsPool, MaxCons) \cup SourceConsLists

QueriedTtps == {<<NameIPV4, "1.0">>, <<NameIPV4, "2.0">>, <<NamePrivate, "2.0">>}

CatalogQuery ==
    /\ pc = "idle"
    /\ \E catalog \in Catalogs, ttp \in QueriedTtps, cons \in CatalogConsLists :
        DirectCall(SwitchObj("SimpleIPv4Switch", <<V10>>, Simple_TTPS_SUPPORTED, catalog),
                   QueryRequest([ttp_name |-> ttp[1], ttp_version |-> ttp[2],
                                 param_constraints |-> cons]))

NextCatalog ==
    \/ CatalogQuery
    \/ SwitchHandle
    \/ DirectReturn
    \/ Forget

SpecCatalog == Init /\ [][NextCatalog]_vars

(***************************************************************************)
(* VariableIPv4Switch.on_ttp_query on any constraint list (SpecSearch).    *)
(***************************************************************************)
SearchConsPool == {ConsIPV4, ConsMAC, ConsRatio, ConsTooBig, ConsFewMACs, ConsRatioMinOnly}

SearchConsLists == SeqsUpTo(SearchConsPool, MaxSearchCons) \cup SourceConsLists

SearchQuery ==
    /\ pc = "idle"
    /\ \E cons \in SearchConsLists :
        DirectCall(VariableSwitch,
                   QueryRequest([ttp_name |-> NameIPV4, ttp_version |-> "1.0",
                                 param_constraints |-> cons]))

NextSearch ==
    \/ SearchQuery
    \/ SwitchHandle
    \/ DirectReturn
    \/ Forget

SpecSearch == Init /\ [][NextSearch]_vars

(***************************************************************************)
(* Properties of the two on_ttp_query methods.                             *)
(***************************************************************************)
QueryOver == req # None /\ req.kind = "ttp_query" /\ resp # None

\* The candidates the catalog of the switch holds for the TTP of the query.
Candidates(self, msg) ==
    LET ttp == <<msg.ttp_name, msg.ttp_version>>
    IN  IF ttp \in DOMAIN self.PARAM_SETS THEN Range(self.PARAM_SETS[ttp]) ELSE {}

Feasible(cons, p) == constraints_met(cons, p) = Val(TRUE)

FeasibleCandidates(self, msg) ==
    {p \in Candidates(self, msg) : Feasible(msg.param_constraints, p)}

\* The response carries a feasible candidate no feasible candidate outscores.
AnswersBest(self, msg, r) ==
    /\ r.exc = "none"
    /\ r.kind = "ttp_query_resp"
    /\ r.payload.params \in FeasibleCandidates(self, msg)
    /\ \A q \in FeasibleCandidates(self, msg) :
           ~NumLess(score(msg.param_constraints, r.payload.params).val,
                    score(msg.param_constraints, q).val)

NoMatchResponse == Returned("ttp_query_resp_err", [error |-> "No match"])

\* C7: the fixed-catalog switch answers a query with ttp_query_resp_err
\* exactly when no candidate of the queried TTP is feasible, and otherwise
\* with ttp_query_resp carrying a feasible candidate of greatest score.
C7_CatalogAnswer ==
    (QueryOver /\ sw.cls = "SimpleIPv4Switch") =>
        IF FeasibleCandidates(sw, req.payload) = {}
        THEN resp = NoMatchResponse
        ELSE AnswersBest(sw, req.payload, resp)

\* What holds of every query the fixed-catalog switch answers (no exception
\* leaves on_ttp_query).
CatalogAnswerWhenAnswered ==
    (QueryOver /\ sw.cls = "SimpleIPv4Switch" /\ resp.exc = "none") =>
        IF FeasibleCandidates(sw, req.payload) = {}
        THEN resp = NoMatchResponse
        ELSE AnswersBest(sw, req.payload, resp)

\* C8: a parameter set the budgeted-search switch returns satisfies
\* constraints_met against the constraint list of the query.
C8_ReturnedSplitIsFeasible ==
    (QueryOver /\ sw.cls = "VariableIPv4Switch" /\ resp.exc = "none"
        /\ resp.payload.params # None) =>
        Feasible(req.payload.param_constraints, resp.payload.params)

\* The query with the constraints of negotiate_ipv4: the split returned was
\* adjusted (its IPV4 value cut to 1.2 times its MAC value).
C8_Witness ==
    /\ QueryOver
    /\ sw.cls = "VariableIPv4Switch"
    /\ req.payload.param_constraints = BaseConstraints
    /\ resp.exc = "none"
    /\ resp.payload.params =
           ("IPV4 table size" :> PyFloat(5400, 1)) @@ ("MAC table size" :> PyInt(4500))

\* The MAC shares the loop of the budgeted search enumerates.
SplitMacs == {SlotStep * i : i \in 0..((MemorySlots - 1) \div SlotStep)}

\* No enumerated split is feasible after the adjustment pass.
NoSplitFeasible(cons) ==
    \A m \in SplitMacs :
        LET applied == apply_constraints(cons, SplitParams(m))
        IN  applied.exc = "none" /\ constraints_met(cons, applied.val) = Val(FALSE)

\* C9: when no split is feasible the budgeted-search switch answers
\* ttp_query_resp_err, and it never answers ttp_query_resp without a
\* parameter set.
C9_NoMatchIsStructuredError ==
    (QueryOver /\ sw.cls = "VariableIPv4Switch") =>
        /\ NoSplitFeasible(req.payload.param_constraints) => resp = NoMatchResponse
        /\ (resp.exc = "none" /\ resp.kind = "ttp_query_resp") => resp.payload.params # None

(***************************************************************************)
(* parse_version and format_version on any version string (SpecVersion).   *)
(***************************************************************************)
\* Longest version string drawn.
MaxVerLen == 3

VersionChars == {"0", "1", "a", "."}

VersionStrings == SeqsUpTo(VersionChars, MaxVerLen)

\* format_version(parse_version(ver)) is called from outside the classes.
VersionCall ==
    /\ pc = "idle"
    /\ \E ver \in VersionStrings :
           req' = [kind |-> "parse_version", payload |-> [ver |-> ver]]
    /\ pc' = "direct"
    /\ resp' = None
    /\ events' = <<>>
    /\ preferred_ttp' = NoneTuple
    /\ outcome' = Running
    /\ logged' = <<>>
    /\ UNCHANGED <<sw, negotiation_msg, queries>>

VersionRun ==
    /\ pc = "direct"
    /\ req # None
    /\ req.kind = "parse_version"
    /\ resp = None
    /\ resp' = LET ver_tuple == parse_version(req.payload.ver)
               IN  Returned("format_version",
                            [ver_tuple |-> ver_tuple, text |-> format_version(ver_tuple)])
    /\ UNCHANGED <<sw, pc, req, events, preferred_ttp, negotiation_msg, queries, outcome, logged>>

NextVersion ==
    \/ VersionCall
    \/ VersionRun
    \/ DirectReturn
    \/ Forget

SpecVersion == Init /\ [][NextVersion]_vars

\* A non-empty run of letters and digits.
IsToken(part) == part # <<>> /\ \A i \in 1..Len(part) : part[i] # "."

\* The text is dot-separated integer or alphanumeric tokens.
IsVersionText(ver) == \A i \in 1..Len(Split(ver)) : IsToken(Split(ver)[i])

RoundTripOver == req # None /\ req.kind = "parse_version" /\ resp # None

\* C11: for every version string of dot-separated integer or alphanumeric
\* tokens, format_version(parse_version(s)) is s.
C11_RoundTrip ==
    (RoundTripOver /\ IsVersionText(req.payload.ver)) =>
        resp.payload.text = req.payload.ver

\* What holds of the round trip: the text got back parses to the same tuple,
\* and it is the text put in when no integer token has a leading zero.
RoundTripCanonical ==
    RoundTripOver =>
        /\ parse_version(resp.payload.text) = resp.payload.ver_tuple
        /\ (\A i \in 1..Len(Split(req.payload.ver)) :
               LET part == Split(req.payload.ver)[i]
               IN  IsIntText(part) => (Len(part) = 1 \/ part[1] # "0"))
           => resp.payload.text = req.payload.ver

(***************************************************************************)
(* constraints_met, score and apply_constraints on any constraint list and *)
(* parameter set (SpecEval).                                               *)
(***************************************************************************)
\* Longest constraint list drawn.
MaxEvalCons == 2

EvalConsPool == {ConsIPV4, ConsMAC, ConsRatio, ConsFeatureX, ConsFewMACs, ConsRatioMinOnly}

EvalConsLists == SeqsUpTo(EvalConsPool, MaxEvalCons)

\* Parameter sets with int values: the candidates of PARAM_SETS for 1.0, one
\* of 2.0, one with no IPV4 entries and one with a ratio below 1.
EvalParams ==
    {Params2(1000, 10000), Params2(5000, 5000), Params2(10000, 2000),
     Params3(4000, 4000, True), SplitParams(MemorySlots), Params2(6000, 5000)}

\* The values a bound is moved to.
BoundValues == {PyInt(4000), PyInt(6000), PyInt(12000), PyFloat(1, 2), PyFloat(1, 1)}

\* The constraints that are cons with one bound tightened: "min" raised or
\* added, "max" lowered or added.
Tightenings(cons) ==
    {[cons EXCEPT !.has_min = TRUE, !.min = v] :
        v \in {w \in BoundValues : ~cons.has_min \/ NumLess(cons.min, w)}}
    \cup
    {[cons EXCEPT !.has_max = TRUE, !.max = v] :
        v \in {w \in BoundValues : ~cons.has_max \/ NumLess(w, cons.max)}}

\* The lists that are constraints with one bound of one constraint tightened.
TightenedLists(constraints) ==
    UNION {{[constraints EXCEPT ![i] = c] : c \in Tightenings(constraints[i])} :
              i \in 1..Len(constraints)}

EvalStart(r) ==
    /\ pc = "idle"
    /\ req' = r
    /\ pc' = "direct"
    /\ resp' = None
    /\ events' = <<>>
    /\ preferred_ttp' = NoneTuple
    /\ outcome' = Running
    /\ logged' = <<>>
    /\ UNCHANGED <<sw, negotiation_msg, queries>>

\* constraints_met is called on a list and on a tightening of it.
MetCall ==
    /\ pc = "idle"
    /\ \E constraints \in EvalConsLists, params \in EvalParams :
         \E tightened \in TightenedLists(constraints) :
           EvalStart([kind |-> "constraints_met",
                      payload |-> [constraints |-> constraints, tightened |-> tightened,
                                   params |-> params]])

ScoreCall ==
    /\ pc = "idle"
    /\ \E constraints \in EvalConsLists, params \in EvalParams :
           EvalStart([kind |-> "score",
                      payload |-> [constraints |-> constraints, params |-> params]])

ApplyCall ==
    /\ pc = "idle"
    /\ \E constraints \in EvalConsLists, params \in EvalParams :
           EvalStart([kind |-> "apply_constraints",
                      payload |-> [constraints |-> constraints, params |-> params]])

EvalKinds == {"constraints_met", "score", "apply_constraints"}

\* The method runs: what it returns or raises is kept in resp.
EvalRun ==
    /\ pc = "direct"
    /\ req # None
    /\ req.kind \in EvalKinds
    /\ resp = None
    /\ resp' =
         IF req.kind = "constraints_met"
         THEN Returned("constraints_met",
                       [met |-> constraints_met(req.payload.constraints, req.payload.params),
                        met_tightened |-> constraints_met(req.payload.tightened,
                                                          req.payload.params)])
         ELSE IF req.kind = "score"
         THEN Returned("score",
                       [score |-> score(req.payload.constraints, req.payload.params),
                        met |-> constraints_met(req.payload.constraints, req.payload.params)])
         ELSE Returned("apply_constraints",
                       [applied |-> apply_constraints(req.payload.constraints,
                                                      req.payload.params)])
    /\ UNCHANGED <<sw, pc, req, events, preferred_ttp, negotiation_msg, queries, outcome, logged>>

NextEval ==
    \/ MetCall
    \/ ScoreCall
    \/ ApplyCall
    \/ EvalRun
    \/ DirectReturn
    \/ Forget

SpecEval == Init /\ [][NextEval]_vars

EvalOver(kind) == req # None /\ req.kind = kind /\ resp # None

\* C12: a parameter set that meets a list with one bound tightened meets the
\* list itself: tightening turns no infeasible parameter set feasible.
C12_FeasibilityMonotone ==
    EvalOver("constraints_met") =>
        (resp.payload.met_tightened = Val(TRUE) => resp.payload.met = Val(TRUE))

\* The lower bound of the MAC constraint raised from 3000 to 4000, met by the
\* Balanced candidate.
C12_Witness ==
    /\ EvalOver("constraints_met")
    /\ req.payload.constraints = <<ConsMAC>>
    /\ req.payload.tightened = <<[ConsMAC EXCEPT !.min = PyInt(4000)]>>
    /\ req.payload.params = Params2(5000, 5000)
    /\ resp.payload.met_tightened = Val(TRUE)
    /\ resp.payload.met = Val(TRUE)

\* A tightening that makes a feasible parameter set infeasible.
TighteningRejects ==
    /\ EvalOver("constraints_met")
    /\ resp.payload.met = Val(TRUE)
    /\ resp.payload.met_tightened = Val(FALSE)

(***************************************************************************)
(* The query negotiate_ipv4 sends for IPV4 1.0, at SimpleIPv4Switch (Spec). *)
(***************************************************************************)
Balanced == Params2(5000, 5000)
MACHeavy == Params2(1000, 10000)

\* A fixed-catalog switch with the PARAM_SETS of the source was asked for
\* IPV4 1.0 with the three constraints of negotiate_ipv4, and the call is over.
SourceQueryOver ==
    /\ QueryOver
    /\ sw.cls = "SimpleIPv4Switch"
    /\ sw.PARAM_SETS = PARAM_SETS
    /\ req.payload = [ttp_name |-> NameIPV4, ttp_version |-> "1.0",
                      param_constraints |-> BaseConstraints]

\* C13: for IPV4 1.0 and the controller's three constraints the Balanced
\* candidate meets the constraints, the MAC-heavy candidate does not, and the
\* response is ttp_query_resp with the Balanced candidate.
C13_BalancedIsSelected ==
    SourceQueryOver =>
        /\ Balanced \in Candidates(sw, req.payload)
        /\ MACHeavy \in Candidates(sw, req.payload)
        /\ constraints_met(req.payload.param_constraints, Balanced) = Val(TRUE)
        /\ constraints_met(req.payload.param_constraints, MACHeavy) = Val(FALSE)
        /\ resp = Returned("ttp_query_resp", [params |-> Balanced])

\* The query as the third exchange of a session of negotiate_with.
C13_Witness ==
    /\ SourceQueryOver
    /\ pc = "done"
    /\ Len(events) = 6
    /\ events[6].payload.params = Balanced

(***************************************************************************)
(* Ties of the score at SimpleIPv4Switch (SpecCatalog).                    *)
(***************************************************************************)
\* The places in the catalog list of the queried TTP whose candidate is
\* feasible and has the greatest score of the feasible ones.
TopPlaces(self, msg) ==
    LET cands == self.PARAM_SETS[<<msg.ttp_name, msg.ttp_version>>]
        cons  == msg.param_constraints
        feas  == {i \in 1..Len(cands) : Feasible(cons, cands[i])}
    IN  {i \in feas : \A j \in feas :
            ~NumLess(score(cons, cands[i]).val, score(cons, cands[j]).val)}

\* C14: the fixed-catalog switch returns, of the feasible candidates of
\* greatest score, the one that comes first in the catalog list.
C14_FirstSeenWinsTies ==
    (QueryOver /\ sw.cls = "SimpleIPv4Switch" /\ resp.exc = "none"
        /\ resp.kind = "ttp_query_resp") =>
        LET top == TopPlaces(sw, req.payload)
            cands == sw.PARAM_SETS[<<req.payload.ttp_name, req.payload.ttp_version>>]
        IN  resp.payload.params = cands[CHOOSE i \in top : \A j \in top : i <= j]

\* What holds instead: of the candidates of greatest score the switch
\* returns the greatest in the order of dicts (no other one is above it).
TieGoesToGreatestDict ==
    (QueryOver /\ sw.cls = "SimpleIPv4Switch" /\ resp.exc = "none"
        /\ resp.kind = "ttp_query_resp") =>
        LET top == TopPlaces(sw, req.payload)
            cands == sw.PARAM_SETS[<<req.payload.ttp_name, req.payload.ttp_version>>]
        IN  /\ \E i \in top : resp.payload.params = cands[i]
            /\ \A i \in top : ~DictLess(resp.payload.params, cands[i])

(***************************************************************************)
(* The adjustment pass (SpecEval).                                         *)
(***************************************************************************)
\* The parameter names the constraints of the list name.
NamedParams(constraints) ==
    UNION {IF constraints[i].type \in BoundTypes THEN {constraints[i].param}
           ELSE IF constraints[i].type = "ratio"
                THEN {constraints[i].param1, constraints[i].param2}
           ELSE {} : i \in 1..Len(constraints)}

\* C15: after a pass of apply_constraints every parameter is less than or
\* equal to what it was before, and a parameter no constraint names is as it
\* was.
C15_ApplyOnlyDecreases ==
    (EvalOver("apply_constraints") /\ resp.payload.applied.exc = "none") =>
        LET before == req.payload.params
            after  == resp.payload.applied.val
        IN  /\ DOMAIN after = DOMAIN before
            /\ \A k \in DOMAIN before : ~NumLess(before[k], after[k])
            /\ \A k \in DOMAIN before \ NamedParams(req.payload.constraints) :
                   after[k] = before[k]

\* The MAC constraint on the MAC-heavy candidate: 10000 MAC entries are cut
\* to the target 6000, the IPV4 entries stay.
C15_Witness ==
    /\ EvalOver("apply_constraints")
    /\ req.payload.constraints = <<ConsMAC>>
    /\ req.payload.params = MACHeavy
    /\ resp.payload.applied = Val(Params2(1000, 6000))

(***************************************************************************)
(* The ratio term of score (SpecEval).                                     *)
(***************************************************************************)
\* score was called with one ratio constraint on int values, the first of
\* them not 0.
RatioScored ==
    /\ EvalOver("score")
    /\ Len(req.payload.constraints) = 1
    /\ req.payload.constraints[1].type = "ratio"
    /\ req.payload.params[req.payload.constraints[1].param1].k = "int"
    /\ req.payload.params[req.payload.constraints[1].param2].k = "int"
    /\ req.payload.params[req.payload.constraints[1].param1].n # 0

\* C17: for a ratio constraint score gives -|r - ratio| * weight, where r is
\* the real quotient of the value of param2 by the value of param1, the
\* ratio constraints_met tests.
C17_ScoreUsesRealRatio ==
    RatioScored =>
        LET cons == req.payload.constraints[1]
            r    == TrueDiv(req.payload.params[cons.param2], req.payload.params[cons.param1])
        IN  /\ resp.payload.score.exc = "none"
            /\ NumEq(resp.payload.score.val,
                     NumSub(PyInt(0), NumMul(NumAbs(NumSub(r, cons.ratio)), cons.score)))

\* What holds instead: the quotient is the floor of the real quotient.
ScoreUsesFloorRatio ==
    RatioScored =>
        LET cons == req.payload.constraints[1]
            v1   == req.payload.params[cons.param1]
            v2   == req.payload.params[cons.param2]
            r    == PyInt(CHOOSE q \in 0..v2.n : q * v1.n <= v2.n /\ v2.n < (q + 1) * v1.n)
        IN  /\ resp.payload.score.exc = "none"
            /\ NumEq(resp.payload.score.val,
                     NumSub(PyInt(0), NumMul(NumAbs(NumSub(r, cons.ratio)), cons.score)))

(***************************************************************************)
(* The split the budgeted search returns (SpecSearch).                     *)
(***************************************************************************)
\* The split with m MAC entries after the adjustment pass.
Adjusted(cons, m) == apply_constraints(cons, SplitParams(m))

\* The MAC shares whose split is feasible after the adjustment pass.
FeasibleSplits(cons) ==
    {m \in SplitMacs : Adjusted(cons, m).exc = "none"
                       /\ constraints_met(cons, Adjusted(cons, m).val) = Val(TRUE)}

\* The feasible MAC shares of greatest score.
TopSplits(cons) ==
    LET feas == FeasibleSplits(cons)
        sc   == [m \in feas |-> score(cons, Adjusted(cons, m).val).val]
    IN  {m \in feas : \A n \in feas : ~NumLess(sc[m], sc[n])}

SearchAnswered ==
    /\ QueryOver
    /\ sw.cls = "VariableIPv4Switch"
    /\ resp.exc = "none"
    /\ resp.payload.params # None

\* C16: the parameter set the budgeted-search switch returns is the adjusted
\* split of greatest score among the feasible ones, and of those of greatest
\* score the one enumerated first.
C16_BestSplitFirstWins ==
    SearchAnswered =>
        LET top == TopSplits(req.payload.param_constraints)
        IN  /\ top # {}
            /\ resp.payload.params =
                   Adjusted(req.payload.param_constraints,
                            CHOOSE m \in top : \A n \in top : m <= n).val

\* Several splits share the greatest score, and the first of them is
\* returned.
C16_Witness ==
    /\ SearchAnswered
    /\ Cardinality(TopSplits(req.payload.param_constraints)) > 1
    /\ LET top == TopSplits(req.payload.param_constraints)
       IN  resp.payload.params =
               Adjusted(req.payload.param_constraints,
                        CHOOSE m \in top : \A n \in top : m <= n).val

(***************************************************************************)
(* The constraint lists of a run of several sessions (Spec).               *)
(***************************************************************************)
\* The constraints a query for the version is to carry.
ExpectedConstraints(ttp_version) ==
    IF ttp_version = "2.0" THEN <<ConsIPV4, ConsMAC, ConsRatio, ConsFeatureX>>
    ELSE <<ConsIPV4, ConsMAC, ConsRatio>>

\* C18: every ttp_query of every session carries exactly the three base
\* constraints when its TTP version is not "2.0" and those three and the
\* Feature X constraint when it is; nothing is left over from the session
\* before.  The query in flight is the message built last.
C18_FreshConstraintsPerSession ==
    /\ \A i \in 1..Len(queries) :
           queries[i].param_constraints = ExpectedConstraints(queries[i].ttp_version)
    /\ (InSession /\ QuerySent) =>
           /\ events[5].payload = queries[Len(queries)]
           /\ events[5].payload.ttp_name = preferred_ttp[1]
           /\ events[5].payload.ttp_version = preferred_ttp[2]

\* A session for IPV4 2.0 and then one for IPV4 1.0, whose query carries the
\* three base constraints only.
C18_Witness ==
    /\ pc = "done"
    /\ Len(queries) = 2
    /\ queries[1].ttp_version = "2.0"
    /\ Len(queries[1].param_constraints) = 4
    /\ queries[2].ttp_version = "1.0"
    /\ events[5].payload = queries[2]
    /\ Len(events[5].payload.param_constraints) = 3

(***************************************************************************)
(* The denominators of the ratios in the sessions of OFCP (Spec).          *)
(***************************************************************************)
\* The ttp_query of a session of negotiate_with is over, at a switch of one
\* of the two classes with on_ttp_query.
SessionQueryOver ==
    /\ InSession
    /\ QuerySent
    /\ resp # None
    /\ sw.cls \in {"SimpleIPv4Switch", "VariableIPv4Switch"}

\* constraints_met is called on params, and score after it when it gives
\* True; neither call divides by zero.
NoZeroDenominator(cons, params) ==
    LET met == constraints_met(cons, params)
    IN  /\ met.exc # "ZeroDivisionError"
        /\ met = Val(TRUE) => score(cons, params).exc # "ZeroDivisionError"

\* C19: in the sessions of the controller with either switch class no ratio
\* is computed with denominator 0: not for a candidate of the catalog, not
\* for an adjusted split, and ZeroDivisionError leaves no query.  The split
\* with MAC share 0 has its IPV4 value cut to 0 and is rejected before its
\* ratio is computed.
C19_NoZeroDenominator ==
    SessionQueryOver =>
        LET cons == req.payload.param_constraints
        IN  /\ resp.exc # "ZeroDivisionError"
            /\ sw.cls = "SimpleIPv4Switch" =>
                   \A p \in Candidates(sw, req.payload) : NoZeroDenominator(cons, p)
            /\ sw.cls = "VariableIPv4Switch" =>
                   \A m \in SplitMacs :
                       Adjusted(cons, m).exc = "none" =>
                           NoZeroDenominator(cons, Adjusted(cons, m).val)
            /\ (sw.cls = "VariableIPv4Switch" /\ cons = BaseConstraints) =>
                   /\ NumEq(Adjusted(cons, 0).val["IPV4 table size"], PyInt(0))
                   /\ constraints_met(cons, Adjusted(cons, 0).val) = Val(FALSE)

\* The session with the budgeted-search switch of the source: the split
\* with MAC share 0 was cut to no IPV4 entries, and the query was answered.
C19_Witness ==
    /\ SessionQueryOver
    /\ pc = "done"
    /\ sw = VariableSwitch
    /\ NumEq(Adjusted(req.payload.param_constraints, 0).val["IPV4 table size"], PyInt(0))
    /\ resp.exc = "none"
    /\ resp.payload.params # None

====
